---- MODULE Spec2Model ----
(***************************************************************************)
(* CPU scheduling simulator: the Process record and the five schedulers    *)
(* (FCFS, SJF, Priority, Round Robin, Priority Round Robin with aging).    *)
(* Python objects live in a heap (a sequence of records, a reference is an *)
(* index); lists, deques and dict values hold references, so that the      *)
(* effect of copy.deepcopy is visible.                                     *)
(***************************************************************************)
EXTENDS Integers, Sequences, FiniteSets, TLC

\* ------------------------------------------------------------------ bounds
MaxProcs == 2
MaxArrival == 2
MaxBurst == 2
MaxPriority == 2
MaxQuantum == 2
MaxAging == 2

\* The longest Gantt chart a run on valid input can produce is below this;
\* it only stops the runs that never terminate (time_quantum <= 0).
MaxGantt == (MaxProcs + 1) * (MaxBurst + 3)

\* Defaults of the constructors' parameters
DefaultQuantum == 2
DefaultAging == 10

VARIABLES
    heap,                 \* Python objects: heap[r] is the Process behind reference r
    caller,               \* the caller's list (references), the constructor argument
    cfg,                  \* the constructor's configuration arguments
    alg,                  \* the scheduler class that is instantiated
    pc,                   \* "new", "constructed", "loop", "done"; "process" in SpecProcess
    processes,            \* self.processes
    time_quantum,         \* self.time_quantum (RR, PRR)
    aging_factor,         \* self.aging_factor (PRR)
    current_time,         \* self.current_time
    execution_log,        \* self.execution_log
    gantt_chart,          \* self.gantt_chart
    remaining_processes,  \* run(): remaining_processes
    completed_processes,  \* run(): completed_processes
    ready_queue,          \* RR run(): ready_queue
    priority_queues,      \* PRR run(): priority_queues (dict priority -> deque)
    idx,                  \* FCFS run(): position of the for loop
    execution_csv,        \* content of static/csv/execution.csv
    cpu_usage,            \* what the last calculate_cpu_usage() returned
    state_trace           \* the dispatched process's state before the last dispatch and
                          \* after each assignment to it during that dispatch

vars == <<heap, caller, cfg, alg, pc, processes, time_quantum, aging_factor,
          current_time, execution_log, gantt_chart, remaining_processes,
          completed_processes, ready_queue, priority_queues, idx, execution_csv, cpu_usage, state_trace>>

\* run()'s locals
locals == <<remaining_processes, completed_processes, ready_queue, priority_queues, idx>>

\* ------------------------------------------------------------ Python values
\* Optional[int]: None is the empty tuple, a value v is <<v>>.
None == <<>>
Some(v) == <<v>>
Val(o) == o[1]

Min(a, b) == IF a <= b THEN a ELSE b
Max(a, b) == IF a >= b THEN a ELSE b
Range(s) == {s[i] : i \in 1..Len(s)}
Front(s) == SubSeq(s, 1, Len(s) - 1)
Last(s) == s[Len(s)]
SetMin(S) == CHOOSE x \in S : \A y \in S : x <= y
SetMax(S) == CHOOSE x \in S : \A y \in S : x >= y

\* ------------------------------------------------------------------ Process
\* Process(id, burst_time, priority, arrival_time) with the dataclass defaults
\* and __post_init__.
NewProcess(id, burst_time, priority, arrival_time) ==
    [id |-> id, burst_time |-> burst_time, priority |-> priority,
     arrival_time |-> arrival_time, waiting_time |-> 0, cpu_time_acquired |-> 0,
     turnaround_time |-> 0, last_running_time |-> 0, max_waiting_time |-> 0,
     age |-> 0, remaining_time |-> burst_time, completion_time |-> None,
     response_time |-> None, state |-> "NEW"]

\* Process.copy: a new Process built from id, burst_time, priority and
\* arrival_time, then given the original's waiting_time, turnaround_time,
\* completion_time, response_time and remaining_time.
copy(p) ==
    [NewProcess(p.id, p.burst_time, p.priority, p.arrival_time)
        EXCEPT !.waiting_time = p.waiting_time,
               !.turnaround_time = p.turnaround_time,
               !.completion_time = p.completion_time,
               !.response_time = p.response_time,
               !.remaining_time = p.remaining_time]

\* Process.execute: the process after the call and the returned time_used.
executeCountingCalls(p, time_slice) ==
    IF p.remaining_time <= 0
    THEN [proc |-> p, time_used |-> 0]
    ELSE LET time_used == Min(time_slice, p.remaining_time)
         IN [proc |-> [p EXCEPT !.cpu_time_acquired = @ + 1,
                                !.remaining_time = @ - time_used,
                                !.state = "RUNNING"],
             time_used |-> time_used]
executeConsumesBurst(p, time_slice) ==
    IF p.remaining_time <= 0
    THEN [proc |-> p, time_used |-> 0]
    ELSE LET time_used == Min(time_slice, p.remaining_time)
         IN [proc |-> [p EXCEPT !.cpu_time_acquired = @ + time_used,
                                !.remaining_time = @ - time_used,
                                !.burst_time = @ - time_used,
                                !.state = "RUNNING"],
             time_used |-> time_used]
executeMarksRunning(p, time_slice) ==
    IF p.remaining_time <= 0
    THEN [proc |-> [p EXCEPT !.state = "RUNNING"], time_used |-> 0]
    ELSE LET time_used == Min(time_slice, p.remaining_time)
         IN [proc |-> [p EXCEPT !.cpu_time_acquired = @ + time_used,
                                !.remaining_time = @ - time_used,
                                !.state = "RUNNING"],
             time_used |-> time_used]
executeNoAccounting(p, time_slice) ==
    IF p.remaining_time <= 0
    THEN [proc |-> p, time_used |-> 0]
    ELSE LET time_used == Min(time_slice, p.remaining_time)
         IN [proc |-> [p EXCEPT !.remaining_time = @ - time_used,
                                !.state = "RUNNING"],
             time_used |-> time_used]
executeOneUnit(p, time_slice) ==
    IF p.remaining_time <= 0
    THEN [proc |-> p, time_used |-> 0]
    ELSE LET time_used == Min(1, Min(time_slice, p.remaining_time))
         IN [proc |-> [p EXCEPT !.cpu_time_acquired = @ + time_used,
                                !.remaining_time = @ - time_used,
                                !.state = "RUNNING"],
             time_used |-> time_used]
executeNoProgress(p, time_slice) ==
    IF p.remaining_time <= 0
    THEN [proc |-> p, time_used |-> 0]
    ELSE LET time_used == Min(time_slice, p.remaining_time)
         IN [proc |-> [p EXCEPT !.cpu_time_acquired = @ + time_used,
                                !.state = "RUNNING"],
             time_used |-> time_used]
execute(p, time_slice) ==
    IF p.remaining_time <= 0
    THEN [proc |-> p, time_used |-> 0]
    ELSE LET time_used == Min(time_slice, p.remaining_time)
         IN [proc |-> [p EXCEPT !.cpu_time_acquired = @ + time_used,
                                !.remaining_time = @ - time_used,
                                !.state = "RUNNING"],
             time_used |-> time_used]

\* Process.complete
completeRecomputingWaiting(p, now) ==
    [p EXCEPT !.state = "COMPLETED",
              !.completion_time = Some(now),
              !.turnaround_time = now - p.arrival_time,
              !.waiting_time = now - p.arrival_time - p.burst_time,
              !.remaining_time = 0]
completeTurnaroundFromZero(p, now) ==
    [p EXCEPT !.state = "COMPLETED",
              !.completion_time = Some(now),
              !.turnaround_time = now,
              !.remaining_time = 0]
complete(p, now) ==
    [p EXCEPT !.state = "COMPLETED",
              !.completion_time = Some(now),
              !.turnaround_time = now - p.arrival_time,
              !.remaining_time = 0]

\* Process.is_completed
is_completedStrict(p) == p.remaining_time < 0
is_completed(p) == p.remaining_time <= 0

\* Process.update_waiting_time
update_waiting_timeAnyState(p, now) ==
    LET wait_period == now - p.last_running_time
    IN [p EXCEPT !.waiting_time = @ + wait_period,
                 !.max_waiting_time = Max(@, wait_period)]
update_waiting_time(p, now) ==
    IF p.state = "READY"
    THEN LET wait_period == now - p.last_running_time
         IN [p EXCEPT !.waiting_time = @ + wait_period,
                      !.max_waiting_time = Max(@, wait_period)]
    ELSE p

\* ------------------------------------------------------- lists of references
\* copy.deepcopy(list): fresh objects appended to the heap, a new list of the
\* new references.
DeepCopyShallow(h, list) == [heap |-> h, refs |-> list]
DeepCopy(h, list) ==
    [heap |-> h \o [i \in 1..Len(list) |-> h[list[i]]],
     refs |-> [i \in 1..Len(list) |-> Len(h) + i]]

\* x in list: identity or dataclass equality (all fields).
PyIn(h, r, list) == \E i \in 1..Len(list) : list[i] = r \/ h[list[i]] = h[r]

\* list.remove(x): drops the first element equal to x.
PyRemoveNothing(h, list, r) == list
PyRemove(h, list, r) ==
    LET k == SetMin({i \in 1..Len(list) : list[i] = r \/ h[list[i]] = h[r]})
    IN SubSeq(list, 1, k - 1) \o SubSeq(list, k + 1, Len(list))

\* list.sort(key=lambda p: p.arrival_time): stable.
SortedInsertBeforeEqual(h, s, r) ==
    LET k == Cardinality({i \in 1..Len(s) : h[s[i]].arrival_time < h[r].arrival_time})
    IN SubSeq(s, 1, k) \o <<r>> \o SubSeq(s, k + 1, Len(s))
SortedInsert(h, s, r) ==
    LET k == Cardinality({i \in 1..Len(s) : h[s[i]].arrival_time <= h[r].arrival_time})
    IN SubSeq(s, 1, k) \o <<r>> \o SubSeq(s, k + 1, Len(s))

RECURSIVE SortByArrival(_, _)
SortByArrival(h, list) ==
    IF list = <<>> THEN <<>>
    ELSE SortedInsert(h, SortByArrival(h, Front(list)), Last(list))

\* ------------------------------------------------------ Gantt chart and log
GanttIdle(start, end) == [idle |-> TRUE, id |-> 0, start |-> start, end |-> end]
GanttRun(id, start, end) == [idle |-> FALSE, id |-> id, start |-> start, end |-> end]

\* write_execution_csv: the file is rewritten with the non-IDLE rows.
write_execution_csv(chart) ==
    Some(SelectSeq(chart, LAMBDA e : ~e.idle))

\* ------------------------------------------------------------------- inputs
FCFS == "FCFS"
SJF == "SJF"
PRIO == "Priority"
RR == "RR"
PRR == "PriorityRR"
Algs == {FCFS, SJF, PRIO, RR, PRR}
RRAlgs == {RR, PRR}

\* The caller's list carries the ids 1..n in ascending or in descending order.
IdOrders(n) == {[i \in 1..n |-> i], [i \in 1..n |-> n + 1 - i]}

RECURSIVE SumTo(_, _)
SumTo(f, n) == IF n = 0 THEN 0 ELSE f[n] + SumTo(f, n - 1)

\* Per-process values within the bounds, and a budget on each total that
\* keeps the lists of MaxProcs processes enumerable.
BurstVectors(n) == {b \in [1..n -> 1..MaxBurst] : SumTo(b, n) <= MaxBurst + 2}
ArrivalVectors(n) == {a \in [1..n -> 0..MaxArrival] : SumTo(a, n) <= MaxArrival + 1}
\* FCFS, SJF and RR never read priority: it varies under Priority and PRR only.
PriorityVectors(n, a) ==
    IF a \in {PRIO, PRR}
    THEN {pr \in [1..n -> 1..MaxPriority] : SumTo(pr, n) <= MaxPriority + 2}
    ELSE {[i \in 1..n |-> 1]}

ProcessLists(n, alg0) ==
    {[i \in 1..n |-> NewProcess(ids[i], b[i], pr[i], a[i])] :
        ids \in IdOrders(n), b \in BurstVectors(n),
        pr \in PriorityVectors(n, alg0), a \in ArrivalVectors(n)}

\* Scenarios of the specification's section 8.
ScenarioRR == <<NewProcess(1, 4, 1, 0), NewProcess(2, 3, 1, 0)>>
ScenarioFCFS == <<NewProcess(1, 5, 1, 0), NewProcess(2, 3, 1, 1), NewProcess(3, 1, 1, 2)>>

\* A process long enough to be preempted again after its priority was aged.
ScenarioAging == <<NewProcess(1, 3, 2, 0), NewProcess(2, 1, 1, 1)>>

Inputs(alg0) ==
    UNION {ProcessLists(n, alg0) : n \in 0..MaxProcs}
        \cup {ScenarioRR, ScenarioFCFS, ScenarioAging}

\* Valid configurations: time_quantum >= 1, aging_factor >= 1 (the smallest
\* and the largest aging factor). The classes without the parameter get the
\* defaults of the others.
ValidQuanta(a) == IF a \in RRAlgs THEN 1..MaxQuantum ELSE {DefaultQuantum}
ValidAgings(a) == IF a = PRR THEN {1, MaxAging} ELSE {DefaultAging}
\* Any configuration, the non-positive ones included.
AnyQuanta(a) == IF a \in RRAlgs THEN 0..MaxQuantum ELSE {DefaultQuantum}
AnyAgings(a) == IF a = PRR THEN {0, 1, MaxAging} ELSE {DefaultAging}

InitWith(input, a, q, g) ==
    /\ heap = input
    /\ caller = [i \in 1..Len(input) |-> i]
    /\ cfg = [time_quantum |-> q, aging_factor |-> g]
    /\ alg = a
    /\ pc = "new"
    /\ processes = <<>>
    /\ time_quantum = 0
    /\ aging_factor = 0
    /\ current_time = 0
    /\ execution_log = <<>>
    /\ gantt_chart = <<>>
    /\ remaining_processes = <<>>
    /\ completed_processes = <<>>
    /\ ready_queue = <<>>
    /\ priority_queues = <<>>
    /\ idx = 0
    /\ execution_csv = None
    /\ cpu_usage = None
    /\ state_trace = <<>>

Init ==
    \E a \in Algs : \E input \in Inputs(a) :
        \E q \in ValidQuanta(a), g \in ValidAgings(a) : InitWith(input, a, q, g)

InitAnyConfig ==
    \E a \in Algs : \E input \in Inputs(a) :
        \E q \in AnyQuanta(a), g \in AnyAgings(a) : InitWith(input, a, q, g)

\* --------------------------------------------------------------------- FCFS
\* FCFSScheduler.__init__
FCFS_init ==
    /\ pc = "new" /\ alg = FCFS
    /\ LET c == DeepCopy(heap, caller)
       IN /\ heap' = c.heap
          /\ processes' = c.refs
    /\ current_time' = 0
    /\ execution_log' = <<>>
    /\ gantt_chart' = <<>>
    /\ pc' = "constructed"
    /\ UNCHANGED <<caller, cfg, alg, time_quantum, aging_factor, locals, execution_csv, cpu_usage, state_trace>>

\* FCFSScheduler.run up to the for loop
FCFS_runWithoutEmptyCheck ==
    /\ pc = "constructed" /\ alg = FCFS
    /\ IF processes = <<>>
       THEN /\ pc' = "raised"      \* self.processes[0] raises IndexError
            /\ UNCHANGED <<processes, current_time, idx>>
       ELSE LET sorted == SortByArrival(heap, processes)
            IN /\ processes' = sorted
               /\ current_time' = heap[sorted[1]].arrival_time
               /\ idx' = 1
               /\ pc' = "loop"
    /\ UNCHANGED <<heap, caller, cfg, alg, time_quantum, aging_factor, execution_log,
                   gantt_chart, remaining_processes, completed_processes, ready_queue,
                   priority_queues, execution_csv, cpu_usage, state_trace>>
FCFS_run ==
    /\ pc = "constructed" /\ alg = FCFS
    /\ IF processes = <<>>
       THEN /\ pc' = "done"
            /\ UNCHANGED <<processes, current_time, idx>>
       ELSE LET sorted == SortByArrival(heap, processes)
            IN /\ processes' = sorted
               /\ current_time' = heap[sorted[1]].arrival_time
               /\ idx' = 1
               /\ pc' = "loop"
    /\ UNCHANGED <<heap, caller, cfg, alg, time_quantum, aging_factor, execution_log,
                   gantt_chart, remaining_processes, completed_processes, ready_queue,
                   priority_queues, execution_csv, cpu_usage, state_trace>>

\* One iteration of the for loop of FCFSScheduler.run
FCFS_stepWaitingFromZero ==
    /\ pc = "loop" /\ alg = FCFS /\ idx <= Len(processes)
    /\ LET r == processes[idx]
           p0 == heap[r]
           idle == current_time < p0.arrival_time
           start == IF idle THEN p0.arrival_time ELSE current_time
           p1 == [p0 EXCEPT !.state = "READY",
                            !.last_running_time = Max(p0.arrival_time, start),
                            !.waiting_time = start]
           ex == execute(p1, p1.burst_time)
           end == start + ex.time_used
       IN /\ gantt_chart' = (IF idle
                             THEN Append(gantt_chart, GanttIdle(current_time, p0.arrival_time))
                             ELSE gantt_chart)
                            \o <<GanttRun(p0.id, start, end)>>
          /\ execution_log' = execution_log \o
                <<<<"Starting Process", start, p0.id>>, <<"Completed Process", end, p0.id>>>>
          /\ current_time' = end
          /\ state_trace' = <<p0.state, p1.state, ex.proc.state, complete(ex.proc, end).state>>
          /\ heap' = [heap EXCEPT ![r] = complete(ex.proc, end)]
    /\ idx' = idx + 1
    /\ UNCHANGED <<caller, cfg, alg, pc, processes, time_quantum, aging_factor,
                   remaining_processes, completed_processes, ready_queue,
                   priority_queues, execution_csv, cpu_usage>>
FCFS_step ==
    /\ pc = "loop" /\ alg = FCFS /\ idx <= Len(processes)
    /\ LET r == processes[idx]
           p0 == heap[r]
           idle == current_time < p0.arrival_time
           start == IF idle THEN p0.arrival_time ELSE current_time
           p1 == [p0 EXCEPT !.state = "READY",
                            !.last_running_time = Max(p0.arrival_time, start),
                            !.waiting_time = start - p0.arrival_time]
           ex == execute(p1, p1.burst_time)
           end == start + ex.time_used
       IN /\ gantt_chart' = (IF idle
                             THEN Append(gantt_chart, GanttIdle(current_time, p0.arrival_time))
                             ELSE gantt_chart)
                            \o <<GanttRun(p0.id, start, end)>>
          /\ execution_log' = execution_log \o
                <<<<"Starting Process", start, p0.id>>, <<"Completed Process", end, p0.id>>>>
          /\ current_time' = end
          /\ state_trace' = <<p0.state, p1.state, ex.proc.state, complete(ex.proc, end).state>>
          /\ heap' = [heap EXCEPT ![r] = complete(ex.proc, end)]
    /\ idx' = idx + 1
    /\ UNCHANGED <<caller, cfg, alg, pc, processes, time_quantum, aging_factor,
                   remaining_processes, completed_processes, ready_queue,
                   priority_queues, execution_csv, cpu_usage>>

\* return self.processes
FCFS_return ==
    /\ pc = "loop" /\ alg = FCFS /\ idx > Len(processes)
    /\ pc' = "done"
    /\ UNCHANGED <<heap, caller, cfg, alg, processes, time_quantum, aging_factor,
                   current_time, execution_log, gantt_chart, locals, execution_csv, cpu_usage, state_trace>>

\* ---------------------------------------------------------------------- SJF
\* min(available_processes, key=lambda p: p.burst_time): the first minimum.
SelectFirstAvailable(h, available) == available[1]
SelectShortest(h, available) ==
    available[SetMin({i \in 1..Len(available) :
        \A j \in 1..Len(available) :
            h[available[i]].burst_time <= h[available[j]].burst_time})]

\* [p for p in remaining_processes if p.arrival_time <= self.current_time]
AvailableIgnoringArrival(h, remaining, now) == remaining
Available(h, remaining, now) ==
    SelectSeq(remaining, LAMBDA r : h[r].arrival_time <= now)

\* min(p.arrival_time for p in list)
NextArrival(h, list) == SetMin({h[r].arrival_time : r \in Range(list)})

\* SJFScheduler.__init__
SJF_init ==
    /\ pc = "new" /\ alg = SJF
    /\ LET c == DeepCopy(heap, caller)
       IN /\ heap' = c.heap
          /\ processes' = c.refs
    /\ current_time' = 0
    /\ execution_log' = <<>>
    /\ gantt_chart' = <<>>
    /\ pc' = "constructed"
    /\ UNCHANGED <<caller, cfg, alg, time_quantum, aging_factor, locals, execution_csv, cpu_usage, state_trace>>

\* SJFScheduler.run up to the while loop
SJF_run ==
    /\ pc = "constructed" /\ alg = SJF
    /\ IF processes = <<>>
       THEN /\ pc' = "done"
            /\ UNCHANGED <<heap, processes, current_time, remaining_processes,
                           completed_processes>>
       ELSE LET sorted == SortByArrival(heap, processes)
                c == DeepCopy(heap, sorted)
            IN /\ processes' = sorted
               /\ current_time' = heap[sorted[1]].arrival_time
               /\ heap' = c.heap
               /\ remaining_processes' = c.refs
               /\ completed_processes' = <<>>
               /\ pc' = "loop"
    /\ UNCHANGED <<caller, cfg, alg, time_quantum, aging_factor, execution_log,
                   gantt_chart, ready_queue, priority_queues, idx, execution_csv, cpu_usage, state_trace>>

\* while iteration with no available process
SJF_idle ==
    /\ pc = "loop" /\ alg = SJF /\ remaining_processes # <<>>
    /\ Available(heap, remaining_processes, current_time) = <<>>
    /\ LET next_arrival == NextArrival(heap, remaining_processes)
       IN /\ gantt_chart' = Append(gantt_chart, GanttIdle(current_time, next_arrival))
          /\ execution_log' = Append(execution_log, <<"CPU idle until", current_time, next_arrival>>)
          /\ current_time' = next_arrival
    /\ UNCHANGED <<heap, caller, cfg, alg, pc, processes, time_quantum, aging_factor,
                   locals, execution_csv, cpu_usage, state_trace>>

\* while iteration that selects and runs a process
SJF_dispatch ==
    /\ pc = "loop" /\ alg = SJF /\ remaining_processes # <<>>
    /\ Available(heap, remaining_processes, current_time) # <<>>
    /\ LET r == SelectShortest(heap, Available(heap, remaining_processes, current_time))
           p0 == heap[r]
           p1 == [p0 EXCEPT !.state = "READY",
                            !.last_running_time = Max(p0.arrival_time, current_time),
                            !.waiting_time = current_time - p0.arrival_time]
           ex == execute(p1, p1.burst_time)
           end == current_time + ex.time_used
           h1 == [heap EXCEPT ![r] = complete(ex.proc, end)]
       IN /\ gantt_chart' = Append(gantt_chart, GanttRun(p0.id, current_time, end))
          /\ execution_log' = execution_log \o
                <<<<"Starting Process", current_time, p0.id, p0.burst_time>>,
                  <<"Completed Process", end, p0.id>>>>
          /\ current_time' = end
          /\ state_trace' = <<p0.state, p1.state, ex.proc.state, complete(ex.proc, end).state>>
          /\ heap' = h1
          /\ remaining_processes' = PyRemove(h1, remaining_processes, r)
          /\ completed_processes' = Append(completed_processes, r)
    /\ UNCHANGED <<caller, cfg, alg, pc, processes, time_quantum, aging_factor,
                   ready_queue, priority_queues, idx, execution_csv, cpu_usage>>

\* after the loop: self.processes = completed_processes; write the csv; return
SJF_return ==
    /\ pc = "loop" /\ alg = SJF /\ remaining_processes = <<>>
    /\ processes' = completed_processes
    /\ execution_csv' = write_execution_csv(gantt_chart)
    /\ UNCHANGED <<cpu_usage, state_trace>>
    /\ pc' = "done"
    /\ UNCHANGED <<heap, caller, cfg, alg, time_quantum, aging_factor, current_time,
                   execution_log, gantt_chart, locals>>

\* ----------------------------------------------------------------- Priority
\* (priority, arrival_time, id) tuple comparison
KeyLess(p, q) ==
    \/ p.priority < q.priority
    \/ p.priority = q.priority /\ p.arrival_time < q.arrival_time
    \/ p.priority = q.priority /\ p.arrival_time = q.arrival_time /\ p.id < q.id

\* min(available_processes, key=lambda p: (p.priority, p.arrival_time, p.id))
SelectByPriorityOnly(h, available) ==
    available[SetMin({i \in 1..Len(available) :
        \A j \in 1..Len(available) :
            h[available[i]].priority <= h[available[j]].priority})]
SelectHighestPriority(h, available) ==
    available[SetMin({i \in 1..Len(available) :
        \A j \in 1..Len(available) : ~KeyLess(h[available[j]], h[available[i]])})]

\* PriorityScheduler.__init__
PRIO_init ==
    /\ pc = "new" /\ alg = PRIO
    /\ LET c == DeepCopy(heap, caller)
       IN /\ heap' = c.heap
          /\ processes' = c.refs
    /\ current_time' = 0
    /\ execution_log' = <<>>
    /\ gantt_chart' = <<>>
    /\ pc' = "constructed"
    /\ UNCHANGED <<caller, cfg, alg, time_quantum, aging_factor, locals, execution_csv, cpu_usage, state_trace>>

\* PriorityScheduler.run up to the while loop
PRIO_run ==
    /\ pc = "constructed" /\ alg = PRIO
    /\ IF processes = <<>>
       THEN /\ pc' = "done"
            /\ UNCHANGED <<heap, processes, current_time, remaining_processes,
                           completed_processes>>
       ELSE LET sorted == SortByArrival(heap, processes)
                c == DeepCopy(heap, sorted)
            IN /\ processes' = sorted
               /\ current_time' = heap[sorted[1]].arrival_time
               /\ heap' = c.heap
               /\ remaining_processes' = c.refs
               /\ completed_processes' = <<>>
               /\ pc' = "loop"
    /\ UNCHANGED <<caller, cfg, alg, time_quantum, aging_factor, execution_log,
                   gantt_chart, ready_queue, priority_queues, idx, execution_csv, cpu_usage, state_trace>>

\* while iteration with no available process
PRIO_idle ==
    /\ pc = "loop" /\ alg = PRIO /\ remaining_processes # <<>>
    /\ Available(heap, remaining_processes, current_time) = <<>>
    /\ LET next_arrival == NextArrival(heap, remaining_processes)
       IN /\ gantt_chart' = Append(gantt_chart, GanttIdle(current_time, next_arrival))
          /\ execution_log' = Append(execution_log, <<"CPU idle until", current_time, next_arrival>>)
          /\ current_time' = next_arrival
    /\ UNCHANGED <<heap, caller, cfg, alg, pc, processes, time_quantum, aging_factor,
                   locals, execution_csv, cpu_usage, state_trace>>

\* while iteration that selects and runs a process
PRIO_dispatch ==
    /\ pc = "loop" /\ alg = PRIO /\ remaining_processes # <<>>
    /\ Available(heap, remaining_processes, current_time) # <<>>
    /\ LET r == SelectHighestPriority(heap, Available(heap, remaining_processes, current_time))
           p0 == heap[r]
           p1 == [p0 EXCEPT !.state = "READY",
                            !.last_running_time = Max(p0.arrival_time, current_time),
                            !.waiting_time = current_time - p0.arrival_time]
           p2 == IF p1.response_time = None
                 THEN [p1 EXCEPT !.response_time = Some(current_time - p1.arrival_time)]
                 ELSE p1
           ex == execute([p2 EXCEPT !.state = "RUNNING"], p2.burst_time)
           end == current_time + ex.time_used
           h1 == [heap EXCEPT ![r] = complete(ex.proc, end)]
       IN /\ gantt_chart' = Append(gantt_chart, GanttRun(p0.id, current_time, end))
          /\ execution_log' = execution_log \o
                <<<<"Starting Process", current_time, p0.id, p0.priority, p0.burst_time>>,
                  <<"Completed Process", end, p0.id>>>>
          /\ current_time' = end
          /\ state_trace' = <<p0.state, p1.state, "RUNNING", ex.proc.state,
                              complete(ex.proc, end).state>>
          /\ heap' = h1
          /\ remaining_processes' = PyRemove(h1, remaining_processes, r)
          /\ completed_processes' = Append(completed_processes, r)
    /\ UNCHANGED <<caller, cfg, alg, pc, processes, time_quantum, aging_factor,
                   ready_queue, priority_queues, idx, execution_csv, cpu_usage>>

\* after the loop: self.processes = completed_processes; write the csv; return
PRIO_return ==
    /\ pc = "loop" /\ alg = PRIO /\ remaining_processes = <<>>
    /\ processes' = completed_processes
    /\ execution_csv' = write_execution_csv(gantt_chart)
    /\ UNCHANGED <<cpu_usage, state_trace>>
    /\ pc' = "done"
    /\ UNCHANGED <<heap, caller, cfg, alg, time_quantum, aging_factor, current_time,
                   execution_log, gantt_chart, locals>>

\* PriorityScheduler.calculate_cpu_usage.  The float the method returns is
\* kept as the exact fraction num / den.
calculate_cpu_usageIgnoringIdle(chart) ==
    IF chart = <<>>
    THEN [num |-> 0, den |-> 1]
    ELSE LET total_time == Last(chart).end - chart[1].start
         IN IF total_time <= 0
            THEN [num |-> 0, den |-> 1]
            ELSE [num |-> total_time * 100, den |-> total_time]
calculate_cpu_usage(chart) ==
    IF chart = <<>>
    THEN [num |-> 0, den |-> 1]
    ELSE LET total_time == Last(chart).end - chart[1].start
         IN IF total_time <= 0
            THEN [num |-> 0, den |-> 1]
            ELSE LET idle_time == SumTo([i \in 1..Len(chart) |->
                                           IF chart[i].idle
                                           THEN chart[i].end - chart[i].start
                                           ELSE 0], Len(chart))
                     active_time == total_time - idle_time
                 IN [num |-> active_time * 100, den |-> total_time]

\* scheduler.calculate_cpu_usage(), called on an instance before or after run()
PRIO_calculate_cpu_usage ==
    /\ alg = PRIO /\ pc \in {"constructed", "done"}
    /\ cpu_usage' = Some(calculate_cpu_usage(gantt_chart))
    /\ UNCHANGED <<heap, caller, cfg, alg, pc, processes, time_quantum, aging_factor,
                   current_time, execution_log, gantt_chart, locals, execution_csv,
                   state_trace>>

\* -------------------------------------------------------------- Round Robin
\* time_slice = min(self.time_quantum, current_process.remaining_time)
TimeSliceWholeBurst(quantum, p) == p.remaining_time
TimeSlice(quantum, p) == Min(quantum, p.remaining_time)

\* The for loop after a slice: every p of remaining_processes that arrived in
\* (slice start, slice end], is not queued, not completed and not the current
\* process is appended, in list order.
RECURSIVE RR_EnqueueArrivalsBeforeSliceEnd(_, _, _, _, _, _, _)
RR_EnqueueArrivalsBeforeSliceEnd(h, list, queue, lo, hi, completed, cur) ==
    IF list = <<>> THEN queue
    ELSE LET r == list[1]
             add == /\ h[r].arrival_time > lo
                    /\ h[r].arrival_time < hi
                    /\ ~PyIn(h, r, queue)
                    /\ ~PyIn(h, r, completed)
                    /\ h[r] # h[cur]
         IN RR_EnqueueArrivalsBeforeSliceEnd(h, Tail(list),
                                             IF add THEN Append(queue, r) ELSE queue,
                                             lo, hi, completed, cur)
RECURSIVE RR_EnqueueArrivals(_, _, _, _, _, _, _)
RR_EnqueueArrivals(h, list, queue, lo, hi, completed, cur) ==
    IF list = <<>> THEN queue
    ELSE LET r == list[1]
             add == /\ h[r].arrival_time > lo
                    /\ h[r].arrival_time <= hi
                    /\ ~PyIn(h, r, queue)
                    /\ ~PyIn(h, r, completed)
                    /\ h[r] # h[cur]
         IN RR_EnqueueArrivals(h, Tail(list), IF add THEN Append(queue, r) ELSE queue,
                               lo, hi, completed, cur)

\* The condition of RoundRobinScheduler.run's while loop
RR_LoopCond ==
    ~(/\ ready_queue = <<>>
      /\ \A r \in Range(remaining_processes) :
            PyIn(heap, r, ready_queue) \/ PyIn(heap, r, completed_processes))

\* RoundRobinScheduler.__init__
RR_init ==
    /\ pc = "new" /\ alg = RR
    /\ LET c == DeepCopy(heap, caller)
       IN /\ heap' = c.heap
          /\ processes' = c.refs
    /\ time_quantum' = cfg.time_quantum
    /\ current_time' = 0
    /\ execution_log' = <<>>
    /\ gantt_chart' = <<>>
    /\ pc' = "constructed"
    /\ UNCHANGED <<caller, cfg, alg, aging_factor, locals, execution_csv, cpu_usage, state_trace>>

\* RoundRobinScheduler.run up to the while loop
RR_run ==
    /\ pc = "constructed" /\ alg = RR
    /\ IF processes = <<>>
       THEN /\ pc' = "done"
            /\ UNCHANGED <<heap, processes, current_time, remaining_processes,
                           completed_processes, ready_queue>>
       ELSE LET sorted == SortByArrival(heap, processes)
                c == DeepCopy(heap, sorted)
            IN /\ processes' = sorted
               /\ current_time' = heap[sorted[1]].arrival_time
               /\ heap' = c.heap
               /\ remaining_processes' = c.refs
               /\ completed_processes' = <<>>
               /\ ready_queue' = <<c.refs[1]>>
               /\ pc' = "loop"
    /\ UNCHANGED <<caller, cfg, alg, time_quantum, aging_factor, execution_log,
                   gantt_chart, priority_queues, idx, execution_csv, cpu_usage, state_trace>>

\* while iteration with an empty ready queue
RR_idle ==
    /\ pc = "loop" /\ alg = RR /\ RR_LoopCond
    /\ ready_queue = <<>>
    /\ LET next_processes == SelectSeq(remaining_processes,
                                 LAMBDA r : ~PyIn(heap, r, completed_processes))
           next_arrival == NextArrival(heap, next_processes)
       IN /\ gantt_chart' = Append(gantt_chart, GanttIdle(current_time, next_arrival))
          /\ execution_log' = Append(execution_log, <<"CPU idle until", current_time, next_arrival>>)
          /\ current_time' = next_arrival
          /\ ready_queue' = SelectSeq(next_processes,
                                LAMBDA r : heap[r].arrival_time = next_arrival)
    /\ UNCHANGED <<heap, caller, cfg, alg, pc, processes, time_quantum, aging_factor,
                   remaining_processes, completed_processes, priority_queues, idx,
                   execution_csv, cpu_usage, state_trace>>

\* while iteration that runs the head of the ready queue for one slice
RR_dispatchRequeueAtHead ==
    /\ pc = "loop" /\ alg = RR /\ RR_LoopCond
    /\ ready_queue # <<>>
    /\ Len(gantt_chart) < MaxGantt
    /\ LET cur == Head(ready_queue)
           p0 == heap[cur]
           p1 == IF p0.response_time = None /\ p0.cpu_time_acquired = 0
                 THEN [p0 EXCEPT !.response_time = Some(current_time - p0.arrival_time)]
                 ELSE p0
           p2 == IF p1.cpu_time_acquired > 0
                 THEN [p1 EXCEPT !.waiting_time = @ + (current_time - p1.last_running_time)]
                 ELSE p1
           p3 == [p2 EXCEPT !.state = "RUNNING"]
           ex == execute(p3, TimeSlice(time_quantum, p3))
           end == current_time + ex.time_used
           p4 == [ex.proc EXCEPT !.last_running_time = end]
           h1 == [heap EXCEPT ![cur] = p4]
           queue == RR_EnqueueArrivals(h1, remaining_processes, Tail(ready_queue),
                                       p4.last_running_time - ex.time_used, end,
                                       completed_processes, cur)
       IN /\ gantt_chart' = Append(gantt_chart, GanttRun(p0.id, current_time, end))
          /\ current_time' = end
          /\ state_trace' = <<p0.state, p3.state, ex.proc.state,
                              IF is_completed(p4) THEN complete(p4, end).state ELSE "READY">>
          /\ IF is_completed(p4)
             THEN /\ heap' = [h1 EXCEPT ![cur] = complete(p4, end)]
                  /\ execution_log' = execution_log \o
                        <<<<"Running Process", current_time, p0.id, p0.remaining_time, time_quantum>>,
                          <<"Completed Process", end, p0.id>>>>
                  /\ completed_processes' = Append(completed_processes, cur)
                  /\ ready_queue' = queue
             ELSE /\ heap' = [h1 EXCEPT ![cur].state = "READY"]
                  /\ execution_log' = Append(execution_log,
                        <<"Running Process", current_time, p0.id, p0.remaining_time, time_quantum>>)
                  /\ completed_processes' = completed_processes
                  /\ ready_queue' = <<cur>> \o queue
    /\ UNCHANGED <<caller, cfg, alg, pc, processes, time_quantum, aging_factor,
                   remaining_processes, priority_queues, idx, execution_csv, cpu_usage>>
RR_dispatch ==
    /\ pc = "loop" /\ alg = RR /\ RR_LoopCond
    /\ ready_queue # <<>>
    /\ Len(gantt_chart) < MaxGantt
    /\ LET cur == Head(ready_queue)
           p0 == heap[cur]
           p1 == IF p0.response_time = None /\ p0.cpu_time_acquired = 0
                 THEN [p0 EXCEPT !.response_time = Some(current_time - p0.arrival_time)]
                 ELSE p0
           p2 == IF p1.cpu_time_acquired > 0
                 THEN [p1 EXCEPT !.waiting_time = @ + (current_time - p1.last_running_time)]
                 ELSE p1
           p3 == [p2 EXCEPT !.state = "RUNNING"]
           ex == execute(p3, TimeSlice(time_quantum, p3))
           end == current_time + ex.time_used
           p4 == [ex.proc EXCEPT !.last_running_time = end]
           h1 == [heap EXCEPT ![cur] = p4]
           queue == RR_EnqueueArrivals(h1, remaining_processes, Tail(ready_queue),
                                       p4.last_running_time - ex.time_used, end,
                                       completed_processes, cur)
       IN /\ gantt_chart' = Append(gantt_chart, GanttRun(p0.id, current_time, end))
          /\ current_time' = end
          /\ state_trace' = <<p0.state, p3.state, ex.proc.state,
                              IF is_completed(p4) THEN complete(p4, end).state ELSE "READY">>
          /\ IF is_completed(p4)
             THEN /\ heap' = [h1 EXCEPT ![cur] = complete(p4, end)]
                  /\ execution_log' = execution_log \o
                        <<<<"Running Process", current_time, p0.id, p0.remaining_time, time_quantum>>,
                          <<"Completed Process", end, p0.id>>>>
                  /\ completed_processes' = Append(completed_processes, cur)
                  /\ ready_queue' = queue
             ELSE /\ heap' = [h1 EXCEPT ![cur].state = "READY"]
                  /\ execution_log' = Append(execution_log,
                        <<"Running Process", current_time, p0.id, p0.remaining_time, time_quantum>>)
                  /\ completed_processes' = completed_processes
                  /\ ready_queue' = Append(queue, cur)
    /\ UNCHANGED <<caller, cfg, alg, pc, processes, time_quantum, aging_factor,
                   remaining_processes, priority_queues, idx, execution_csv, cpu_usage>>

\* after the loop: self.processes = completed_processes; write the csv; return
RR_return ==
    /\ pc = "loop" /\ alg = RR /\ ~RR_LoopCond
    /\ processes' = completed_processes
    /\ execution_csv' = write_execution_csv(gantt_chart)
    /\ UNCHANGED <<cpu_usage, state_trace>>
    /\ pc' = "done"
    /\ UNCHANGED <<heap, caller, cfg, alg, time_quantum, aging_factor, current_time,
                   execution_log, gantt_chart, locals>>

\* ----------------------------------------------------- Priority Round Robin
\* if p.priority not in priority_queues: priority_queues[p.priority] = deque()
\* priority_queues[p.priority].append(p)
PQ_AppendLeft(pq, k, r) ==
    IF k \in DOMAIN pq
    THEN [pq EXCEPT ![k] = <<r>> \o @]
    ELSE [x \in DOMAIN pq \cup {k} |-> IF x = k THEN <<r>> ELSE pq[x]]
PQ_Append(pq, k, r) ==
    IF k \in DOMAIN pq
    THEN [pq EXCEPT ![k] = Append(@, r)]
    ELSE [x \in DOMAIN pq \cup {k} |-> IF x = k THEN <<r>> ELSE pq[x]]

\* any(priority_queues.values())
PQ_Any(pq) == \E k \in DOMAIN pq : pq[k] # <<>>

\* any(p in q for q in priority_queues.values())
PQ_In(h, r, pq) == \E k \in DOMAIN pq : PyIn(h, r, pq[k])

\* min([p for p in priority_queues if priority_queues[p]])
PQ_SelectLowestPriority(pq) == SetMax({k \in DOMAIN pq : pq[k] # <<>>})
PQ_Select(pq) == SetMin({k \in DOMAIN pq : pq[k] # <<>>})

\* Aging at a dispatch of a process that has run before.
AgedNever(p, wait_time, factor) == p.priority
Aged(p, wait_time, factor) ==
    IF wait_time >= factor /\ p.priority > 1 THEN p.priority - 1 ELSE p.priority

\* The for loop after a slice: the arrivals are appended to the queue of
\* their priority, and logged.
RECURSIVE PRR_EnqueueArrivals(_, _, _, _, _, _, _)
PRR_EnqueueArrivals(h, list, st, lo, hi, completed, cur) ==
    IF list = <<>> THEN st
    ELSE LET r == list[1]
             add == /\ h[r].arrival_time > lo
                    /\ h[r].arrival_time <= hi
                    /\ ~PyIn(h, r, completed)
                    /\ ~PQ_In(h, r, st.pq)
                    /\ h[r] # h[cur]
         IN PRR_EnqueueArrivals(h, Tail(list),
                IF add
                THEN [pq |-> PQ_Append(st.pq, h[r].priority, r),
                      log |-> Append(st.log, <<"arrived with priority",
                                               h[r].arrival_time, h[r].id, h[r].priority>>)]
                ELSE st,
                lo, hi, completed, cur)

\* The condition of PriorityRoundRobinScheduler.run's while loop
PRR_LoopCond ==
    ~(/\ ~PQ_Any(priority_queues)
      /\ \A r \in Range(remaining_processes) :
            PyIn(heap, r, completed_processes) \/ PQ_In(heap, r, priority_queues))

\* PriorityRoundRobinScheduler.__init__
PRR_init ==
    /\ pc = "new" /\ alg = PRR
    /\ LET c == DeepCopy(heap, caller)
       IN /\ heap' = c.heap
          /\ processes' = c.refs
    /\ time_quantum' = cfg.time_quantum
    /\ aging_factor' = cfg.aging_factor
    /\ current_time' = 0
    /\ execution_log' = <<>>
    /\ gantt_chart' = <<>>
    /\ pc' = "constructed"
    /\ UNCHANGED <<caller, cfg, alg, locals, execution_csv, cpu_usage, state_trace>>

\* PriorityRoundRobinScheduler.run up to the while loop
PRR_run ==
    /\ pc = "constructed" /\ alg = PRR
    /\ IF processes = <<>>
       THEN /\ pc' = "done"
            /\ UNCHANGED <<heap, processes, current_time, remaining_processes,
                           completed_processes, priority_queues>>
       ELSE LET sorted == SortByArrival(heap, processes)
                c == DeepCopy(heap, sorted)
                first_process == c.refs[1]
            IN /\ processes' = sorted
               /\ current_time' = heap[sorted[1]].arrival_time
               /\ heap' = c.heap
               /\ remaining_processes' = c.refs
               /\ completed_processes' = <<>>
               /\ priority_queues' = PQ_Append(<<>>, c.heap[first_process].priority,
                                               first_process)
               /\ pc' = "loop"
    /\ UNCHANGED <<caller, cfg, alg, time_quantum, aging_factor, execution_log,
                   gantt_chart, ready_queue, idx, execution_csv, cpu_usage, state_trace>>

RECURSIVE PQ_AppendAll(_, _, _)
PQ_AppendAll(h, pq, list) ==
    IF list = <<>> THEN pq
    ELSE PQ_AppendAll(h, PQ_Append(pq, h[list[1]].priority, list[1]), Tail(list))

\* while iteration with all queues empty
PRR_idle ==
    /\ pc = "loop" /\ alg = PRR /\ PRR_LoopCond
    /\ ~PQ_Any(priority_queues)
    /\ LET next_processes == SelectSeq(remaining_processes,
                                 LAMBDA r : ~PyIn(heap, r, completed_processes))
           next_arrival == NextArrival(heap, next_processes)
       IN /\ gantt_chart' = Append(gantt_chart, GanttIdle(current_time, next_arrival))
          /\ execution_log' = Append(execution_log, <<"CPU idle until", current_time, next_arrival>>)
          /\ current_time' = next_arrival
          /\ priority_queues' = PQ_AppendAll(heap, priority_queues,
                SelectSeq(next_processes, LAMBDA r : heap[r].arrival_time = next_arrival))
    /\ UNCHANGED <<heap, caller, cfg, alg, pc, processes, time_quantum, aging_factor,
                   remaining_processes, completed_processes, ready_queue, idx,
                   execution_csv, cpu_usage, state_trace>>

\* while iteration that runs the head of the best non-empty queue for one slice
PRR_dispatch ==
    /\ pc = "loop" /\ alg = PRR /\ PRR_LoopCond
    /\ PQ_Any(priority_queues)
    /\ Len(gantt_chart) < MaxGantt
    /\ LET priority == PQ_Select(priority_queues)
           cur == Head(priority_queues[priority])
           pq1 == [priority_queues EXCEPT ![priority] = Tail(@)]
           p0 == heap[cur]
           p1 == IF p0.response_time = None /\ p0.cpu_time_acquired = 0
                 THEN [p0 EXCEPT !.response_time = Some(current_time - p0.arrival_time)]
                 ELSE p0
           wait_time == current_time - p1.last_running_time
           p2 == IF p1.cpu_time_acquired > 0
                 THEN [p1 EXCEPT !.waiting_time = @ + wait_time,
                                 !.priority = Aged(p1, wait_time, aging_factor)]
                 ELSE p1
           log1 == (IF p2.priority # p0.priority
                    THEN Append(execution_log, <<"priority increased due to aging",
                                  current_time, p0.id, p0.priority, p2.priority>>)
                    ELSE execution_log)
                   \o <<<<"Running Process", current_time, p0.id, p0.remaining_time,
                          p2.priority, time_quantum>>>>
           p3 == [p2 EXCEPT !.state = "RUNNING"]
           ex == execute(p3, TimeSlice(time_quantum, p3))
           end == current_time + ex.time_used
           p4 == [ex.proc EXCEPT !.last_running_time = end]
           h1 == [heap EXCEPT ![cur] = p4]
           st == PRR_EnqueueArrivals(h1, remaining_processes, [pq |-> pq1, log |-> log1],
                                     p4.last_running_time - ex.time_used, end,
                                     completed_processes, cur)
       IN /\ gantt_chart' = Append(gantt_chart, GanttRun(p0.id, current_time, end))
          /\ current_time' = end
          /\ state_trace' = <<p0.state, p3.state, ex.proc.state,
                              IF is_completed(p4) THEN complete(p4, end).state ELSE "READY">>
          /\ IF is_completed(p4)
             THEN /\ heap' = [h1 EXCEPT ![cur] = complete(p4, end)]
                  /\ execution_log' = Append(st.log, <<"Completed Process", end, p0.id>>)
                  /\ completed_processes' = Append(completed_processes, cur)
                  /\ priority_queues' = st.pq
             ELSE /\ heap' = [h1 EXCEPT ![cur].state = "READY"]
                  /\ execution_log' = st.log
                  /\ completed_processes' = completed_processes
                  /\ priority_queues' = PQ_Append(st.pq, p4.priority, cur)
    /\ UNCHANGED <<caller, cfg, alg, pc, processes, time_quantum, aging_factor,
                   remaining_processes, ready_queue, idx, execution_csv, cpu_usage>>

\* after the loop: self.processes = completed_processes; write the csv; return
PRR_return ==
    /\ pc = "loop" /\ alg = PRR /\ ~PRR_LoopCond
    /\ processes' = completed_processes
    /\ execution_csv' = write_execution_csv(gantt_chart)
    /\ UNCHANGED <<cpu_usage, state_trace>>
    /\ pc' = "done"
    /\ UNCHANGED <<heap, caller, cfg, alg, time_quantum, aging_factor, current_time,
                   execution_log, gantt_chart, locals>>

\* ------------------------------------------------------------ specification
Next ==
    \/ FCFS_init
    \/ FCFS_run
    \/ FCFS_step
    \/ FCFS_return
    \/ SJF_init
    \/ SJF_run
    \/ SJF_idle
    \/ SJF_dispatch
    \/ SJF_return
    \/ PRIO_init
    \/ PRIO_run
    \/ PRIO_idle
    \/ PRIO_dispatch
    \/ PRIO_return
    \/ RR_init
    \/ RR_run
    \/ RR_idle
    \/ RR_dispatch
    \/ RR_return
    \/ PRR_init
    \/ PRR_run
    \/ PRR_idle
    \/ PRR_dispatch
    \/ PRR_return

Spec == Init /\ [][Next]_vars
SpecAnyConfig == InitAnyConfig /\ [][Next]_vars

\* A PriorityScheduler whose calculate_cpu_usage() is called before and after
\* run().
InitPriority ==
    \E input \in Inputs(PRIO) : InitWith(input, PRIO, DefaultQuantum, DefaultAging)

NextPriority ==
    \/ PRIO_init
    \/ PRIO_run
    \/ PRIO_idle
    \/ PRIO_dispatch
    \/ PRIO_return
    \/ PRIO_calculate_cpu_usage

SpecPriority == InitPriority /\ [][NextPriority]_vars

\* ------------------------------------------- Process, its methods called directly
\* A caller that creates one Process and calls execute() and complete() on
\* it, at most MaxCalls times: the process is heap[1], and execution_log
\* records each call with its argument and, for execute, the returned value.
MaxCalls == 3
MaxSlice == MaxBurst + 1

InitProcess ==
    /\ \E burst_time \in 1..MaxBurst, arrival_time \in 0..1 :
           heap = <<NewProcess(1, burst_time, 1, arrival_time)>>
    /\ caller = <<1>>
    /\ cfg = [time_quantum |-> DefaultQuantum, aging_factor |-> DefaultAging]
    /\ alg = FCFS
    /\ pc = "process"
    /\ processes = <<>>
    /\ time_quantum = 0
    /\ aging_factor = 0
    /\ current_time = 0
    /\ execution_log = <<>>
    /\ gantt_chart = <<>>
    /\ remaining_processes = <<>>
    /\ completed_processes = <<>>
    /\ ready_queue = <<>>
    /\ priority_queues = <<>>
    /\ idx = 0
    /\ execution_csv = None
    /\ cpu_usage = None
    /\ state_trace = <<>>

\* p.execute(time_slice)
Process_execute ==
    /\ pc = "process" /\ Len(execution_log) < MaxCalls
    /\ \E time_slice \in 0..MaxSlice :
          LET ex == execute(heap[1], time_slice)
          IN /\ heap' = <<ex.proc>>
             /\ execution_log' = Append(execution_log, <<"execute", time_slice, ex.time_used>>)
    /\ UNCHANGED <<caller, cfg, alg, pc, processes, time_quantum, aging_factor,
                   current_time, gantt_chart, locals, execution_csv, cpu_usage, state_trace>>

\* p.complete(current_time)
Process_complete ==
    /\ pc = "process" /\ Len(execution_log) < MaxCalls
    /\ \E now \in 0..MaxSlice :
          /\ heap' = <<complete(heap[1], now)>>
          /\ execution_log' = Append(execution_log, <<"complete", now>>)
    /\ UNCHANGED <<caller, cfg, alg, pc, processes, time_quantum, aging_factor,
                   current_time, gantt_chart, locals, execution_csv, cpu_usage, state_trace>>

\* p.update_waiting_time(current_time)
Process_update_waiting_time ==
    /\ pc = "process" /\ Len(execution_log) < MaxCalls
    /\ \E now \in 0..MaxSlice :
          /\ heap' = <<update_waiting_time(heap[1], now)>>
          /\ execution_log' = Append(execution_log, <<"update_waiting_time", now>>)
    /\ UNCHANGED <<caller, cfg, alg, pc, processes, time_quantum, aging_factor,
                   current_time, gantt_chart, locals, execution_csv, cpu_usage, state_trace>>

\* What a scheduler does to a process it takes off the CPU:
\* p.last_running_time = current_time; p.state = "READY"
Process_preempt ==
    /\ pc = "process" /\ Len(execution_log) < MaxCalls
    /\ \E now \in 0..MaxSlice :
          /\ heap' = <<[heap[1] EXCEPT !.last_running_time = now, !.state = "READY"]>>
          /\ execution_log' = Append(execution_log, <<"preempt", now>>)
    /\ UNCHANGED <<caller, cfg, alg, pc, processes, time_quantum, aging_factor,
                   current_time, gantt_chart, locals, execution_csv, cpu_usage, state_trace>>

\* q = p.copy(): the new object is heap[2]; it is dropped by the next call.
Process_copy ==
    /\ pc = "process" /\ Len(execution_log) < MaxCalls
    /\ heap' = <<heap[1], copy(heap[1])>>
    /\ execution_log' = Append(execution_log, <<"copy">>)
    /\ UNCHANGED <<caller, cfg, alg, pc, processes, time_quantum, aging_factor,
                   current_time, gantt_chart, locals, execution_csv, cpu_usage, state_trace>>

NextProcess ==
    \/ Process_execute
    \/ Process_complete
    \/ Process_update_waiting_time
    \/ Process_preempt
    \/ Process_copy

SpecProcess == InitProcess /\ [][NextProcess]_vars

\* ------------------------------------------------------------------ helpers
Done == pc = "done"

\* The list run() works on while the loop runs.
Working == IF alg = FCFS THEN processes ELSE remaining_processes

\* The objects of the list run() returns.
Returned == [i \in 1..Len(processes) |-> heap[processes[i]]]

\* The caller's objects, in the caller's order.
CallerView == [i \in 1..Len(caller) |-> heap[caller[i]]]
CallerProcess(id) == heap[caller[CHOOSE i \in 1..Len(caller) : heap[caller[i]].id = id]]

GanttIndices == 1..Len(gantt_chart)
RunIndices == {i \in GanttIndices : ~gantt_chart[i].idle}
Duration(e) == e.end - e.start

RECURSIVE SumDurations(_)
SumDurations(chart) ==
    IF chart = <<>> THEN 0 ELSE Duration(chart[1]) + SumDurations(Tail(chart))

\* A step that appends a process entry / an IDLE entry to the Gantt chart.
NonIdleStep == Len(gantt_chart') > Len(gantt_chart) /\ ~Last(gantt_chart').idle
IdleStep == Len(gantt_chart') = Len(gantt_chart) + 1 /\ Last(gantt_chart').idle
\* The object a NonIdleStep dispatches.
DispatchedRef == CHOOSE r \in Range(Working) : heap[r].id = Last(gantt_chart').id

\* Some process can be dispatched at the current time.
CanDispatch ==
    CASE alg \in {SJF, PRIO} -> Available(heap, remaining_processes, current_time) # <<>>
      [] alg = RR -> ready_queue # <<>>
      [] alg = PRR -> PQ_Any(priority_queues)
      [] OTHER -> idx <= Len(processes)

\* The work left: decreases with every step of the constructor and of run().
RECURSIVE TotalRemaining(_, _)
TotalRemaining(h, list) ==
    IF list = <<>> THEN 0 ELSE h[list[1]].remaining_time + TotalRemaining(h, Tail(list))

Rank ==
    CASE pc = "new" -> 4 + 2 * TotalRemaining(heap, caller)
      [] pc = "constructed" -> 3 + 2 * TotalRemaining(heap, processes)
      [] pc = "loop" -> 1 + 2 * TotalRemaining(heap, Working)
                          + (IF CanDispatch THEN 0 ELSE 1)
      [] OTHER -> 0

\* Some action of Next is enabled (the same as ENABLED Next): the branches of
\* the loops are exhaustive, and only a dispatch of RR or PRR has a further
\* guard.
StepEnabled ==
    \/ pc \in {"new", "constructed"}
    \/ pc = "loop" /\ ((alg \in RRAlgs /\ CanDispatch) => Len(gantt_chart) < MaxGantt)

\* ------------------------------------------------------------------- claims
\* C1: every process returned by run() has
\* turnaround_time = waiting_time + burst_time, under every scheduler.
C1_TurnaroundIsWaitingPlusBurst ==
    Done => \A i \in 1..Len(Returned) :
                Returned[i].turnaround_time = Returned[i].waiting_time + Returned[i].burst_time

\* C2: after run() on a non-empty input the Gantt chart starts at the minimum
\* arrival time, every entry has start <= end and starts where the previous
\* one ends, and the last entry ends at the maximum completion time.
C2_GanttContiguous ==
    (Done /\ processes # <<>>) =>
        /\ gantt_chart # <<>>
        /\ gantt_chart[1].start = SetMin({Returned[i].arrival_time : i \in 1..Len(Returned)})
        /\ \A i \in GanttIndices : gantt_chart[i].start <= gantt_chart[i].end
        /\ \A i \in GanttIndices \ {1} : gantt_chart[i].start = gantt_chart[i - 1].end
        /\ Last(gantt_chart).end =
              SetMax({Val(Returned[i].completion_time) : i \in 1..Len(Returned)})

\* C3: after run() on a non-empty input the durations of all Gantt entries
\* sum to max(completion_time) - min(arrival_time).
C3_GanttDurationsSum ==
    (Done /\ processes # <<>>) =>
        SumDurations(gantt_chart) =
            SetMax({Val(Returned[i].completion_time) : i \in 1..Len(Returned)})
            - SetMin({Returned[i].arrival_time : i \in 1..Len(Returned)})

\* C4: on valid input run() terminates, and only with every process
\* COMPLETED: a step can be taken until run() returns, every step decreases
\* Rank, every non-idle step strictly decreases the dispatched process's
\* remaining_time and an idle step leaves a process to dispatch.
C4_Terminates ==
    /\ [](~Done => StepEnabled)
    /\ [][Rank' < Rank]_vars
    /\ [](Done => /\ Len(processes) = Len(caller)
                  /\ \A i \in 1..Len(Returned) : Returned[i].state = "COMPLETED")
    /\ [][NonIdleStep =>
            heap'[DispatchedRef].remaining_time < heap[DispatchedRef].remaining_time]_vars
    /\ [][IdleStep => CanDispatch']_vars

C4_Witness ==
    /\ Done /\ alg \in RRAlgs
    /\ \E i \in GanttIndices : gantt_chart[i].idle
    /\ \E i, j \in RunIndices : i # j /\ gantt_chart[i].id = gantt_chart[j].id

\* C5: no step of the constructor or of run() changes the caller's list or
\* any field of the Process objects in it.
C5_CallerUntouched == [][caller' = caller /\ CallerView' = CallerView]_vars

C5_Witness ==
    /\ Done /\ Len(caller) >= 2
    /\ \A i \in 1..Len(Returned) : Returned[i].state = "COMPLETED"
    /\ \E i \in 1..Len(caller) : Returned[i].id # CallerView[i].id
    /\ \A i \in 1..Len(caller) : CallerView[i].state = "NEW"

\* C6: Round Robin with time_quantum 2 on ids [1,2], arrivals [0,0], bursts
\* [4,3] yields the Gantt chart P1(0-2), P2(2-4), P1(4-6), P2(6-7) and the
\* completion times P1 = 6, P2 = 7.
C6_ScenarioRR ==
    (Done /\ alg = RR /\ time_quantum = 2 /\ CallerView = ScenarioRR) =>
        /\ gantt_chart = <<GanttRun(1, 0, 2), GanttRun(2, 2, 4),
                           GanttRun(1, 4, 6), GanttRun(2, 6, 7)>>
        /\ \A i \in 1..Len(Returned) :
              Returned[i].completion_time = Some(IF Returned[i].id = 1 THEN 6 ELSE 7)

\* C7: a RoundRobinScheduler or PriorityRoundRobinScheduler never exists with
\* a non-positive time_quantum, nor a PriorityRoundRobinScheduler with a
\* non-positive aging_factor: the constructor rejects them.
C7_InvalidConfigRejected ==
    (pc # "new" /\ alg \in RRAlgs) =>
        /\ time_quantum >= 1
        /\ alg = PRR => aging_factor >= 1

\* C8: every process returned by run() has response_time set, to the start
\* of its first Gantt entry minus its arrival_time.
C8_ResponseTimeSet ==
    Done => \A i \in 1..Len(Returned) :
                LET first == SetMin({k \in RunIndices : gantt_chart[k].id = Returned[i].id})
                IN Returned[i].response_time =
                       Some(gantt_chart[first].start - Returned[i].arrival_time)

\* C9: in Round Robin and Priority Round Robin every dispatch runs for
\* exactly min(time_quantum, remaining_time at dispatch): never longer than
\* time_quantum, and shorter only when the slice finishes the process.
C9_SliceIsMinQuantumRemaining ==
    [][(alg \in RRAlgs /\ NonIdleStep) =>
          LET e == Last(gantt_chart')
              r == DispatchedRef
          IN /\ Len(gantt_chart') = Len(gantt_chart) + 1
             /\ Duration(e) = Min(time_quantum, heap[r].remaining_time)
             /\ Duration(e) <= time_quantum
             /\ Duration(e) < time_quantum => heap'[r].remaining_time = 0]_vars

C9_Witness ==
    /\ alg \in RRAlgs /\ Done
    /\ \E i, j \in RunIndices :
          /\ i < j /\ gantt_chart[i].id = gantt_chart[j].id
          /\ Duration(gantt_chart[i]) = time_quantum
          /\ Duration(gantt_chart[j]) < time_quantum

\* C10: in SJF, whenever a process is selected, no process that has arrived
\* and is not completed has a strictly smaller burst_time.
C10_SJFSelectsShortest ==
    [][(alg = SJF /\ NonIdleStep) =>
          \A r \in Range(remaining_processes) :
              heap[r].arrival_time <= current_time =>
                  heap[r].burst_time >= heap[DispatchedRef].burst_time]_vars

\* A process entered the CPU ahead of one that stands before it in the
\* sorted list, had arrived too and needs more time.
C10_Witness ==
    /\ alg = SJF /\ pc = "loop" /\ Len(gantt_chart) = 1 /\ ~gantt_chart[1].idle
    /\ \E r \in Range(remaining_processes) :
          /\ heap[r].arrival_time <= gantt_chart[1].start
          /\ heap[r].burst_time > CallerProcess(gantt_chart[1].id).burst_time
          /\ heap[r].arrival_time <= CallerProcess(gantt_chart[1].id).arrival_time

\* C11: in the Priority scheduler, whenever a process is selected it is the
\* least of the arrived, uncompleted processes in the order (priority,
\* arrival_time, id), whatever the order of the input list: none of them has
\* a lower priority value, none of equal priority arrived earlier, and none of
\* equal priority and arrival has a smaller id.
C11_PrioritySelectsMinKey ==
    [][(alg = PRIO /\ NonIdleStep) =>
          LET s == heap[DispatchedRef]
          IN \A r \in Range(remaining_processes) :
                heap[r].arrival_time <= current_time =>
                    /\ heap[r].priority >= s.priority
                    /\ heap[r].priority = s.priority =>
                          heap[r].arrival_time >= s.arrival_time
                    /\ (heap[r].priority = s.priority
                            /\ heap[r].arrival_time = s.arrival_time) =>
                          heap[r].id >= s.id]_vars

\* The first dispatch took the second process of the caller's list, which
\* ties with the first on priority and arrival and has the smaller id.
C11_Witness ==
    /\ alg = PRIO /\ pc = "loop" /\ Len(gantt_chart) = 1 /\ Len(caller) = 2
    /\ gantt_chart[1].id = CallerView[2].id
    /\ CallerView[2].id < CallerView[1].id
    /\ CallerView[2].priority = CallerView[1].priority
    /\ CallerView[2].arrival_time = CallerView[1].arrival_time

\* The position of the process with this id in the caller's list.
CallerPos(id) == CHOOSE i \in 1..Len(caller) : CallerView[i].id = id

\* C12 (as stated): after FCFS the processes appear in the Gantt chart, each
\* once, in ascending order of arrival_time, ties in ascending order of id,
\* whatever the order of the input list.
C12_FCFSOrderTiesById ==
    (Done /\ alg = FCFS) =>
        /\ \A i \in 1..Len(caller) :
              Cardinality({k \in RunIndices : gantt_chart[k].id = CallerView[i].id}) = 1
        /\ \A i, j \in RunIndices :
              i < j =>
                 LET p == CallerProcess(gantt_chart[i].id)
                     q == CallerProcess(gantt_chart[j].id)
                 IN \/ p.arrival_time < q.arrival_time
                    \/ p.arrival_time = q.arrival_time /\ p.id < q.id

\* C12 (amended): after FCFS the processes appear in the Gantt chart, each
\* once, in ascending order of arrival_time, ties in the order of the input
\* list (which is the order of id when the input list is in that order).
C12_FCFSOrderTiesByPosition ==
    (Done /\ alg = FCFS) =>
        /\ \A i \in 1..Len(caller) :
              Cardinality({k \in RunIndices : gantt_chart[k].id = CallerView[i].id}) = 1
        /\ \A i, j \in RunIndices :
              i < j =>
                 LET p == CallerProcess(gantt_chart[i].id)
                     q == CallerProcess(gantt_chart[j].id)
                 IN \/ p.arrival_time < q.arrival_time
                    \/ /\ p.arrival_time = q.arrival_time
                       /\ CallerPos(p.id) < CallerPos(q.id)

\* FCFS ran two processes that arrived together, the larger id first, as the
\* input list had them.
C12_Witness ==
    /\ Done /\ alg = FCFS /\ Len(caller) = 2
    /\ CallerView[1].arrival_time = CallerView[2].arrival_time
    /\ CallerView[1].id > CallerView[2].id
    /\ \E i, j \in RunIndices :
          /\ i < j
          /\ gantt_chart[i].id = CallerView[1].id
          /\ gantt_chart[j].id = CallerView[2].id

\* C13: in Priority Round Robin, a dispatch of a process that has run before
\* and has waited current_time - last_running_time >= aging_factor with
\* priority > 1 lowers its priority by exactly 1; any other dispatch leaves
\* the priority as it is. No step raises a priority or takes it below 1.
C13_AgingOnDispatch ==
    /\ [][(alg = PRR /\ NonIdleStep) =>
            LET r == DispatchedRef
                ranBefore == \E k \in RunIndices : gantt_chart[k].id = heap[r].id
                wait == current_time - heap[r].last_running_time
            IN heap'[r].priority =
                  IF ranBefore /\ wait >= aging_factor /\ heap[r].priority > 1
                  THEN heap[r].priority - 1
                  ELSE heap[r].priority]_vars
    /\ [][alg = PRR =>
            \A r \in DOMAIN heap :
                heap'[r].priority <= heap[r].priority /\ heap'[r].priority >= 1]_vars

\* A process of the run has been aged: its priority is below the one it was
\* created with, and it got there by a second dispatch.
C13_Witness ==
    /\ alg = PRR /\ pc = "loop"
    /\ \E r \in Range(remaining_processes) :
          /\ heap[r].priority < CallerProcess(heap[r].id).priority
          /\ Cardinality({k \in RunIndices : gantt_chart[k].id = heap[r].id}) >= 2

\* C14: the list run() returns is as long as the input and holds every input
\* id exactly once; every returned process is COMPLETED with remaining_time 0,
\* cpu_time_acquired = burst_time and a completion_time that is not None.
C14_ReturnsEveryProcessCompleted ==
    Done =>
        /\ Len(processes) = Len(caller)
        /\ \A i \in 1..Len(caller) :
              Cardinality({j \in 1..Len(processes) : Returned[j].id = CallerView[i].id}) = 1
        /\ \A j \in 1..Len(processes) :
              /\ Returned[j].state = "COMPLETED"
              /\ Returned[j].remaining_time = 0
              /\ Returned[j].cpu_time_acquired = Returned[j].burst_time
              /\ Returned[j].completion_time # None

\* A preemptive run returned two processes in the order of their completion,
\* which is not the order of the input list, one of them after several slices.
C14_Witness ==
    /\ Done /\ alg \in RRAlgs /\ Len(processes) = 2
    /\ Returned[1].arrival_time < Returned[2].arrival_time
    /\ Val(Returned[1].completion_time) < Val(Returned[2].completion_time)
    /\ Returned[1].id = CallerView[2].id
    /\ \E j \in 1..2 :
          Cardinality({k \in RunIndices : gantt_chart[k].id = Returned[j].id}) >= 2

\* C15: run() on an empty list returns an empty list in its first step,
\* without raising, and leaves the Gantt chart and the execution log empty and
\* the clock at 0.
C15_EmptyInputReturnsEmpty ==
    /\ [][(pc = "constructed" /\ processes = <<>>) =>
            /\ pc' = "done"
            /\ processes' = <<>>
            /\ gantt_chart' = <<>> /\ execution_log' = <<>> /\ current_time' = 0]_vars
    /\ [](caller = <<>> => (pc # "new" => processes = <<>>))
    /\ []((Done /\ caller = <<>>) =>
            /\ processes = <<>>
            /\ gantt_chart = <<>> /\ execution_log = <<>> /\ current_time = 0)

C15_Witness ==
    /\ Done /\ caller = <<>> /\ heap = <<>>
    /\ processes = <<>> /\ gantt_chart = <<>> /\ execution_log = <<>>

\* The scheduler's own Process objects: self.processes and the working list.
OwnRefs == Range(processes) \cup Range(remaining_processes)

\* C17 (as stated): in every scheduler, every process of the scheduler's
\* lists has the burst_time, priority and arrival_time it was created with,
\* at every point of the constructor and of run().
C17_StaticInputsKept ==
    \A r \in OwnRefs :
        /\ heap[r].burst_time = CallerProcess(heap[r].id).burst_time
        /\ heap[r].arrival_time = CallerProcess(heap[r].id).arrival_time
        /\ heap[r].priority = CallerProcess(heap[r].id).priority

\* C17 (amended): every process of the scheduler's lists keeps the burst_time
\* and arrival_time it was created with; it keeps its priority too in FCFS,
\* SJF, Priority and Round Robin, whereas in Priority Round Robin aging may
\* have lowered it, never below 1.
C17_StaticInputsKeptButAgedPriority ==
    \A r \in OwnRefs :
        /\ heap[r].burst_time = CallerProcess(heap[r].id).burst_time
        /\ heap[r].arrival_time = CallerProcess(heap[r].id).arrival_time
        /\ alg # PRR => heap[r].priority = CallerProcess(heap[r].id).priority
        /\ alg = PRR => /\ heap[r].priority <= CallerProcess(heap[r].id).priority
                        /\ heap[r].priority >= 1

\* A finished run whose processes went through execute() and complete(),
\* one of them returned with an aged priority.
C17_Witness ==
    /\ Done /\ alg = PRR /\ Len(processes) = 2
    /\ \A j \in 1..2 : Returned[j].cpu_time_acquired = CallerProcess(Returned[j].id).burst_time
    /\ \E j \in 1..2 : Returned[j].priority < CallerProcess(Returned[j].id).priority

\* C18: every process returned by run() has
\* completion_time = arrival_time + turnaround_time.
C18_CompletionIsArrivalPlusTurnaround ==
    Done => \A j \in 1..Len(processes) :
                Returned[j].completion_time =
                    Some(Returned[j].arrival_time + Returned[j].turnaround_time)

\* A returned process that arrived after time 0 and had to wait.
C18_Witness ==
    /\ Done
    /\ \E j \in 1..Len(processes) :
          /\ Returned[j].arrival_time > 0
          /\ Returned[j].turnaround_time > Returned[j].burst_time

\* C19: FCFS on three processes with arrivals [0,1,2] and bursts [5,3,1]
\* gives the completion times [5,8,9] and the waiting times [0,4,6].
C19_ScenarioFCFS ==
    (Done /\ alg = FCFS /\ CallerView = ScenarioFCFS) =>
        /\ Len(processes) = 3
        /\ [j \in 1..3 |-> Returned[j].id] = <<1, 2, 3>>
        /\ [j \in 1..3 |-> Returned[j].completion_time] = <<Some(5), Some(8), Some(9)>>
        /\ [j \in 1..3 |-> Returned[j].waiting_time] = <<0, 4, 6>>

C19_Witness ==
    /\ Done /\ alg = FCFS /\ CallerView = ScenarioFCFS
    /\ gantt_chart = <<GanttRun(1, 0, 5), GanttRun(2, 5, 8), GanttRun(3, 8, 9)>>

\* The last call recorded in the log was made by this step and is an execute().
ExecuteCall ==
    /\ Len(execution_log') = Len(execution_log) + 1
    /\ Last(execution_log')[1] = "execute"

\* C20: execute(time_slice) with time_slice >= 0 on a process with
\* remaining_time > 0 returns t = min(time_slice, remaining_time), lowers
\* remaining_time by t, raises cpu_time_acquired by t and sets state to
\* RUNNING; on a process with remaining_time = 0 it returns 0 and leaves every
\* field, state included, as it was, in every call of a sequence of calls.
C20_ExecuteContract ==
    [][ExecuteCall =>
          LET p == heap[1]
              q == heap'[1]
              time_slice == Last(execution_log')[2]
              t == Last(execution_log')[3]
          IN IF p.remaining_time > 0
             THEN /\ t = (IF time_slice <= p.remaining_time
                          THEN time_slice ELSE p.remaining_time)
                  /\ q.remaining_time = p.remaining_time - t
                  /\ q.cpu_time_acquired = p.cpu_time_acquired + t
                  /\ q.state = "RUNNING"
             ELSE t = 0 /\ q = p]_vars

\* execute() ran the burst, complete() was called, and a further execute()
\* with a positive slice returned 0.
C20_Witness ==
    /\ pc = "process" /\ Len(execution_log) >= 3
    /\ heap[1].state = "COMPLETED" /\ heap[1].remaining_time = 0
    /\ heap[1].cpu_time_acquired = heap[1].burst_time
    /\ Last(execution_log)[1] = "execute"
    /\ Last(execution_log)[2] > 0 /\ Last(execution_log)[3] = 0
    /\ execution_log[1][1] = "execute" /\ execution_log[1][3] > 0

\* C21: in every state of every run on valid input, every process has
\* remaining_time >= 0, and between two steps of the scheduler a process is
\* in state COMPLETED exactly when its remaining_time is 0.
C21_CompletedIffNothingRemains ==
    \A r \in DOMAIN heap :
        /\ heap[r].remaining_time >= 0
        /\ heap[r].state = "COMPLETED" <=> heap[r].remaining_time = 0

\* A preemptive run in which one process is COMPLETED and another, already
\* partly executed, waits READY.
C21_Witness ==
    /\ pc = "loop" /\ alg \in RRAlgs
    /\ \E r, q \in Range(remaining_processes) :
          /\ heap[r].state = "COMPLETED" /\ heap[r].remaining_time = 0
          /\ heap[q].state = "READY"
          /\ heap[q].remaining_time > 0
          /\ heap[q].remaining_time < heap[q].burst_time

\* The last call recorded in the log was made by this step and is an
\* update_waiting_time().
UpdateWaitingTimeCall ==
    /\ Len(execution_log') = Len(execution_log) + 1
    /\ Last(execution_log')[1] = "update_waiting_time"

\* C22: update_waiting_time(current_time) adds exactly
\* current_time - last_running_time to waiting_time when state is READY, and
\* changes no field when state is NEW, RUNNING or COMPLETED.
C22_UpdateWaitingTimeOnlyWhenReady ==
    [][UpdateWaitingTimeCall =>
          LET p == heap[1]
              q == heap'[1]
              now == Last(execution_log')[2]
          IN IF p.state = "READY"
             THEN q.waiting_time = p.waiting_time + (now - p.last_running_time)
             ELSE p.state \in {"NEW", "RUNNING", "COMPLETED"} /\ q = p]_vars

\* update_waiting_time() has just added a positive wait to a READY process
\* that had left the CPU after time 0.
C22_Witness ==
    /\ pc = "process" /\ Len(execution_log) >= 2
    /\ Last(execution_log)[1] = "update_waiting_time"
    /\ heap[1].state = "READY"
    /\ heap[1].last_running_time > 0
    /\ heap[1].waiting_time = Last(execution_log)[2] - heap[1].last_running_time
    /\ heap[1].waiting_time > 0

\* C23: run() of every scheduler performs no I/O: it reads and writes no file
\* or other state outside the scheduler instance.  Here: the file
\* static/csv/execution.csv is never written.
C23_NoFileWritten ==
    execution_csv = None

\* C24: concurrent scheduler instances share no mutable state: no step of
\* run() writes a location that another instance also writes.  The only
\* location outside the instance is the file at the fixed path
\* static/csv/execution.csv, so no step may change it.
C24_StepsWriteOnlyInstanceState ==
    [][execution_csv' = execution_csv]_vars

\* This step is a call of calculate_cpu_usage().
CpuUsageCall ==
    /\ alg = PRIO /\ pc \in {"constructed", "done"} /\ pc' = pc
    /\ cpu_usage' # None

\* Summed duration of the IDLE entries of the Gantt chart.
IdleTime == SumDurations(SelectSeq(gantt_chart, LAMBDA e : e.idle))

RECURSIVE SumBursts(_)
SumBursts(ps) == IF ps = <<>> THEN 0 ELSE ps[1].burst_time + SumBursts(Tail(ps))

Queued ==
    IF alg = RR THEN Range(ready_queue)
    ELSE UNION {Range(priority_queues[k]) : k \in DOMAIN priority_queues}

\* C26: in RR and PRR, before the first dispatch the ready queue(s) contain
\* every process whose arrival_time equals the start clock, not only the
\* first one of the sorted list.
C26_SeedsAllFirstArrivals ==
    (alg \in RRAlgs /\ pc = "loop" /\ gantt_chart = <<>>) =>
        \A r \in Range(remaining_processes) :
            heap[r].arrival_time = current_time => r \in Queued

\* C27: in every scheduler current_time never decreases during run(), and
\* every idle step strictly advances it: the IDLE Gantt entry has end > start
\* and ends at the earliest arrival_time among the processes not yet
\* completed.
C27_ClockMonotonic ==
    [][/\ current_time' >= current_time
       /\ IdleStep =>
            LET e == Last(gantt_chart')
            IN /\ e.end > e.start
               /\ e.end = current_time'
               /\ e.end = SetMin({heap[r].arrival_time :
                                    r \in {x \in Range(Working) :
                                              heap[x].state # "COMPLETED"}})]_vars

\* C28: in Round Robin, after a slice of process P ends, every process that
\* arrived during the slice (slice start < arrival_time <= slice end), is not
\* P, not already queued and not completed is appended to the tail of the
\* ready queue in arrival order before P is re-appended; the queue is served
\* from its head, so each such arrival is dispatched before P's next dispatch.
C28_ArrivalsQueuedBeforePreempted ==
    [][(alg = RR /\ NonIdleStep) =>
          LET P == Head(ready_queue)
              rest == Tail(ready_queue)
              n == Len(rest)
              arrivals == {r \in Range(remaining_processes) :
                              /\ heap[r].arrival_time > current_time
                              /\ heap[r].arrival_time <= current_time'
                              /\ r # P
                              /\ r \notin Range(ready_queue)
                              /\ r \notin Range(completed_processes)}
              k == Cardinality(arrivals)
              requeued == heap'[P].state # "COMPLETED"
          IN /\ Last(gantt_chart').id = heap[P].id
             /\ Last(gantt_chart').start = current_time
             /\ Last(gantt_chart').end = current_time'
             /\ Len(ready_queue') = n + k + (IF requeued THEN 1 ELSE 0)
             /\ SubSeq(ready_queue', 1, n) = rest
             /\ {ready_queue'[i] : i \in (n + 1)..(n + k)} = arrivals
             /\ \A i, j \in (n + 1)..(n + k) :
                   i < j => heap[ready_queue'[i]].arrival_time
                               <= heap[ready_queue'[j]].arrival_time
             /\ requeued => Last(ready_queue') = P]_vars

\* A slice of a process has just ended before its burst was over, and a
\* process that arrived during the slice stands in the queue in front of it.
C28_Witness ==
    /\ alg = RR /\ pc = "loop" /\ gantt_chart # <<>>
    /\ Len(ready_queue) >= 2
    /\ LET e == Last(gantt_chart)
           P == Last(ready_queue)
           A == ready_queue[Len(ready_queue) - 1]
       IN /\ ~e.idle /\ heap[P].id = e.id
          /\ heap[P].state = "READY" /\ heap[P].remaining_time > 0
          /\ heap[A].arrival_time > e.start
          /\ heap[A].arrival_time <= e.end
          /\ heap[A].cpu_time_acquired = 0

\* C29: in SJF, for every input list order, the process selected at each
\* non-idle selection point is the least of the arrived, uncompleted
\* processes in the order (burst_time, arrival_time, id): equal burst times
\* are broken by earliest arrival_time, then by lowest id.
C29_SJFSelectsMinKey ==
    [][(alg = SJF /\ NonIdleStep) =>
          LET s == heap[DispatchedRef]
          IN \A r \in Range(remaining_processes) :
                heap[r].arrival_time <= current_time =>
                    LET p == heap[r]
                    IN \/ s.burst_time < p.burst_time
                       \/ /\ s.burst_time = p.burst_time
                          /\ s.arrival_time < p.arrival_time
                       \/ /\ s.burst_time = p.burst_time
                          /\ s.arrival_time = p.arrival_time
                          /\ s.id <= p.id]_vars

\* C30: in Priority Round Robin every dispatch takes the head of the
\* non-empty priority queue with the smallest key: at each dispatch no
\* process waiting in any queue has a priority value strictly lower than the
\* priority the dispatched process had when it was selected.
C30_DispatchFromHighestPriorityQueue ==
    [][(alg = PRR /\ NonIdleStep) =>
          LET P == DispatchedRef
          IN /\ \E k \in DOMAIN priority_queues :
                   /\ priority_queues[k] # <<>>
                   /\ Head(priority_queues[k]) = P
                   /\ \A j \in DOMAIN priority_queues :
                         priority_queues[j] # <<>> => k <= j
             /\ \A r \in Queued : heap[r].priority >= heap[P].priority]_vars

\* A process has just run while a process of a larger priority value, which
\* had arrived before that slice began, was waiting in its queue.
C30_Witness ==
    /\ alg = PRR /\ pc = "loop" /\ gantt_chart # <<>>
    /\ ~Last(gantt_chart).idle
    /\ \E r \in Queued :
          /\ heap[r].id # Last(gantt_chart).id
          /\ heap[r].arrival_time < Last(gantt_chart).start
          /\ heap[r].priority > CallerProcess(Last(gantt_chart).id).priority
          /\ heap[r].state = "READY"

\* The places (queue key, position) at which object r stands in the priority
\* queues.
QueuePlaces(r) ==
    {kp \in UNION {{<<k, i>> : i \in 1..Len(priority_queues[k])} :
                      k \in DOMAIN priority_queues} :
        priority_queues[kp[1]][kp[2]] = r}

\* C31: in Priority Round Robin a preempted (unfinished) process is appended
\* to the tail of the queue keyed by its priority after aging, and a completed
\* process is never re-queued; so at every step each queued process sits in
\* exactly one queue, exactly once, and that queue's key equals the process's
\* current priority.
C31_QueuedOnceUnderCurrentPriority ==
    /\ [](alg = PRR =>
            \A r \in DOMAIN heap :
               /\ Cardinality(QueuePlaces(r)) <= 1
               /\ \A kp \in QueuePlaces(r) :
                     /\ kp[1] = heap[r].priority
                     /\ heap[r].state # "COMPLETED")
    /\ [][(alg = PRR /\ NonIdleStep) =>
            LET P == DispatchedRef
            IN IF heap'[P].state = "COMPLETED"
               THEN P \notin Queued'
               ELSE /\ heap'[P].priority \in DOMAIN priority_queues'
                    /\ Last(priority_queues'[heap'[P].priority]) = P]_vars

\* A preempted process whose priority was raised by aging waits at the tail
\* of the queue of its new priority, while a completed process is in no
\* queue.
C31_Witness ==
    /\ alg = PRR /\ pc = "loop"
    /\ \E r \in Queued :
          /\ heap[r].priority < CallerProcess(heap[r].id).priority
          /\ heap[r].state = "READY" /\ heap[r].remaining_time > 0
          /\ Last(priority_queues[heap[r].priority]) = r
    /\ \E c \in Range(completed_processes) : c \notin Queued

NonPreemptiveAlgs == {FCFS, SJF, PRIO}

\* The Gantt entries of the process with this id.
EntriesOf(id) == {k \in RunIndices : gantt_chart[k].id = id}

\* C32: FCFS, SJF and Priority are non-preemptive: after run() each process
\* has exactly one Gantt entry, its duration equals the process's burst_time,
\* and no other process's entry starts between that entry's start and end.
C32_NonPreemptive ==
    (Done /\ alg \in NonPreemptiveAlgs) =>
        \A i \in 1..Len(Returned) :
            LET p == Returned[i]
            IN /\ Cardinality(EntriesOf(p.id)) = 1
               /\ \A k \in EntriesOf(p.id) :
                     /\ Duration(gantt_chart[k]) = p.burst_time
                     /\ \A j \in RunIndices \ {k} :
                           \/ gantt_chart[j].start < gantt_chart[k].start
                           \/ gantt_chart[j].start >= gantt_chart[k].end

\* An SJF run in which a strictly shorter process arrived while a longer one
\* was on the CPU, and started only when the longer one had ended.
C32_Witness ==
    /\ Done /\ alg = SJF
    /\ \E i, j \in RunIndices :
          LET long == CallerProcess(gantt_chart[i].id)
              short == CallerProcess(gantt_chart[j].id)
          IN /\ short.burst_time < long.burst_time
             /\ short.arrival_time > gantt_chart[i].start
             /\ short.arrival_time < gantt_chart[i].end
             /\ gantt_chart[j].start = gantt_chart[i].end

States == {"NEW", "READY", "RUNNING", "COMPLETED"}

Transitions ==
    {<<"NEW", "READY">>, <<"READY", "RUNNING">>, <<"RUNNING", "READY">>,
     <<"RUNNING", "COMPLETED">>}

\* C33: in every scheduler run each process's state is always one of NEW,
\* READY, RUNNING, COMPLETED and changes only along NEW->READY,
\* READY->RUNNING, RUNNING->READY and RUNNING->COMPLETED; in particular no
\* process goes from NEW directly to RUNNING or from READY directly to
\* COMPLETED.
C33_StateTransitions ==
    /\ \A r \in DOMAIN heap : heap[r].state \in States
    /\ \A i \in 1..(Len(state_trace) - 1) :
          \/ state_trace[i] = state_trace[i + 1]
          \/ <<state_trace[i], state_trace[i + 1]>> \in Transitions

\* C34: once a process has been completed inside run(), no later step of that
\* run changes any of its fields, and the process is never dispatched or
\* queued again.
C34_CompletedIsFrozen ==
    [][\A r \in DOMAIN heap :
          heap[r].state = "COMPLETED" =>
             /\ heap'[r] = heap[r]
             /\ r \notin Queued'
             /\ NonIdleStep => DispatchedRef # r]_vars

\* A Round Robin run went on with another process after one was completed:
\* the completed process keeps the completion_time of its last Gantt entry
\* while later entries exist.
C34_Witness ==
    /\ alg \in RRAlgs /\ pc = "loop"
    /\ \E r \in Range(completed_processes) :
          /\ heap[r].state = "COMPLETED"
          /\ \E k \in EntriesOf(heap[r].id) :
                /\ Val(heap[r].completion_time) = gantt_chart[k].end
                /\ \E j \in RunIndices : j > k /\ gantt_chart[j].id # heap[r].id

\* C35: Process.copy() creates a deep copy: for a process in any state
\* reachable through execute() and complete(), the returned object is a
\* distinct object whose every field (state, cpu_time_acquired and
\* last_running_time included) equals the original's.
C35_CopyEqualsOriginal ==
    (pc = "process" /\ Len(heap) = 2) => heap[2] = heap[1]

\* The time between the end of each Gantt entry of the process with this id
\* and the start of its next entry, summed over the first n entries of the
\* chart; last is the end of the latest entry met (None before the first).
RECURSIVE GapSum(_, _, _)
GapSum(id, n, last) ==
    IF n > Len(gantt_chart) THEN 0
    ELSE LET e == gantt_chart[n]
         IN IF ~e.idle /\ e.id = id
            THEN (IF last = None THEN 0 ELSE e.start - Val(last))
                    + GapSum(id, n + 1, Some(e.end))
            ELSE GapSum(id, n + 1, last)

C37_NoDispatchBeforeArrival ==
    /\ \A k \in RunIndices :
          gantt_chart[k].start >= CallerProcess(gantt_chart[k].id).arrival_time
    /\ Done => \A i \in 1..Len(Returned) :
                  /\ Returned[i].waiting_time >= 0
                  /\ Returned[i].response_time # None =>
                        Val(Returned[i].response_time) >= 0

\* A finished run in which the CPU idled until the process that stands first
\* in the input list arrived, and dispatched it at its arrival time.
C37_Witness ==
    /\ Done
    /\ \E k \in GanttIndices \ {1} :
          /\ gantt_chart[k - 1].idle /\ ~gantt_chart[k].idle
          /\ gantt_chart[k - 1].end > gantt_chart[k - 1].start
          /\ gantt_chart[k].start = CallerProcess(gantt_chart[k].id).arrival_time
          /\ CallerPos(gantt_chart[k].id) = 1

\* Summed duration of the Gantt entries of the process with this id.
CpuTimeInChart(id) ==
    SumDurations(SelectSeq(gantt_chart, LAMBDA e : ~e.idle /\ e.id = id))

\* C38: in every scheduler, for every process p the durations of p's Gantt
\* entries sum to exactly p.burst_time after run(), and at every intermediate
\* step cpu_time_acquired + remaining_time = burst_time with cpu_time_acquired
\* equal to the summed duration of p's Gantt entries so far.
C38_CpuTimeAccounting ==
    /\ pc = "loop" =>
          \A r \in Range(Working) :
             /\ heap[r].cpu_time_acquired + heap[r].remaining_time = heap[r].burst_time
             /\ heap[r].cpu_time_acquired = CpuTimeInChart(heap[r].id)
    /\ Done =>
          \A i \in 1..Len(Returned) :
             /\ CpuTimeInChart(Returned[i].id) = Returned[i].burst_time
             /\ Returned[i].cpu_time_acquired = Returned[i].burst_time

\* In the middle of a run a preempted process has used part of its burst, in
\* a slice longer than one time unit.
C38_Witness ==
    /\ pc = "loop" /\ alg \in RRAlgs
    /\ \E r \in Range(Working) :
          /\ heap[r].cpu_time_acquired >= 2
          /\ heap[r].remaining_time > 0
          /\ heap[r].cpu_time_acquired = CpuTimeInChart(heap[r].id)
          /\ Cardinality(EntriesOf(heap[r].id)) = 1

\* r stands before s in the queue.
Before(queue, r, s) ==
    \E n, m \in 1..Len(queue) : n < m /\ queue[n] = r /\ queue[m] = s

\* C39: Round Robin is fair in FIFO order: between two consecutive dispatches
\* of the same unfinished process P, every process that was in the ready
\* queue when P was re-queued is dispatched exactly once, and no other process
\* is dispatched more than once.  Here: a re-queued process goes behind all
\* queued processes; a process that stands before P in the queue stays before
\* P until it is dispatched, and P is not dispatched while one does; and
\* between two entries of P in the Gantt chart with no entry of P between
\* them no process has two entries.
C39_RoundRobinFIFO ==
    /\ [][(alg = RR /\ NonIdleStep) =>
            LET P == DispatchedRef
            IN /\ P = Head(ready_queue)
               /\ heap'[P].state # "COMPLETED" =>
                     /\ Last(ready_queue') = P
                     /\ \A r \in Range(ready_queue) \ {P} : Before(ready_queue', r, P)
               /\ \A r, s \in Range(ready_queue) :
                     Before(ready_queue, r, s) =>
                        /\ s # P
                        /\ r = P \/ Before(ready_queue', r, s)]_vars
    /\ [](alg = RR =>
            \A i, j \in RunIndices :
               (/\ i < j
                /\ gantt_chart[i].id = gantt_chart[j].id
                /\ \A k \in RunIndices :
                      (i < k /\ k < j) => gantt_chart[k].id # gantt_chart[i].id)
               => \A k, l \in RunIndices :
                     (i < k /\ k < l /\ l < j) => gantt_chart[k].id # gantt_chart[l].id)

\* Two processes have taken turns: P ran, then Q, then P again, and Q, still
\* unfinished, waits in the queue for its next turn.
C39_Witness ==
    /\ alg = RR /\ pc = "loop" /\ Len(ready_queue) = 1
    /\ \E k \in RunIndices :
          /\ k + 2 = Len(gantt_chart)
          /\ ~gantt_chart[k + 1].idle /\ ~gantt_chart[k + 2].idle
          /\ gantt_chart[k].id = gantt_chart[k + 2].id
          /\ gantt_chart[k + 1].id # gantt_chart[k].id
          /\ heap[ready_queue[1]].id = gantt_chart[k + 1].id
          /\ heap[ready_queue[1]].remaining_time > 0

\* C40: in RR and PRR the CPU is never recorded idle while work is available:
\* an IDLE Gantt entry is appended only at a moment when no arrived
\* (arrival_time <= current_time), uncompleted process exists.
C40_IdleOnlyWithoutWork ==
    [][(alg \in RRAlgs /\ IdleStep) =>
          ~\E r \in Range(remaining_processes) :
                /\ heap[r].arrival_time <= current_time
                /\ heap[r].state # "COMPLETED"]_vars
====
